---- MODULE Spec2Model ----
(***************************************************************************)
(* Model of the SaaS-template API backend: the in-memory session cache,    *)
(* logout and MFA of apps/api/auth/service.py, the exception handlers, the *)
(* rate limiter and its middleware of apps/api/main.py, the users table of *)
(* apps/api/db/crud.py with GET /users/me, and init_db of db/session.py.   *)
(*                                                                         *)
(* The auth provider (the Stytch SDK) is the environment: every call to it *)
(* gets an answer drawn from a small set of possible answers.              *)
(*                                                                         *)
(* Strings built with f"{a}:{b}" are modelled as the tuple <<a, b>>: the   *)
(* fingerprint is a hex digest and the path starts with "/", so the        *)
(* separator cannot make two different pairs collide.                      *)
(***************************************************************************)
EXTENDS Integers, Sequences, FiniteSets, TLC

VARIABLES
    now,              \* time.time(), in seconds
    session_cache,    \* service.session_cache: key -> [data, timestamp]
    rate_limit_store, \* main.rate_limit_store: key -> list of request times
    accepted,         \* history: every request time check_rate_limit accepted, per key
    last,             \* observation of the last operation: arguments, provider calls, outcome
    users,            \* the rows of the users table (db/models.py), in insertion order
    proc,             \* the requests in flight against the database, each at an await point
    boot              \* the run of init_db: its position, deadline and attempts

vars == <<now, session_cache, rate_limit_store, accepted, last, users, proc, boot>>

----------------------------------------------------------------------------
(* Bounds *)

MaxClock == 1200
MaxRateClock == 60
MaxDbClock == 10
MaxTimeout == 3
MaxAttemptTime == 5

(* Program constants *)

CACHE_TTL == 300
CACHE_MAX_AGE == 900
ROTATE_AFTER == 1800
RATE_LIMIT_REQUESTS == 10
RATE_LIMIT_WINDOW == 60
HTTP_200_OK == 200
HTTP_401_UNAUTHORIZED == 401
HTTP_503_SERVICE_UNAVAILABLE == 503
HTTP_429_TOO_MANY_REQUESTS == 429

----------------------------------------------------------------------------
(* Values *)

None == [none |-> TRUE]          \* Python None where a dict or object is expected
NoneStr == "<None>"              \* Python None where a str is expected
NoCookie == "<absent>"           \* request.cookies.get() found no cookie

Tokens == {"tokA", "tokB"}
Cookies == Tokens \cup {NoCookie, ""}
ClientIps == {"10.0.0.1"}

Requests == [cookie : Cookies, client_ip : ClientIps, forwarded_for : {""},
             user_agent : {"agent"}]

\* the values time.time() takes when an operation starts
ClockValues == {0, 150, 300, MaxClock}

\* answers of stytch_client.sessions.authenticate(token), asked at time t
AuthAnswers(t) ==
    { [kind |-> "raise", user_id |-> NoneStr, has_started_at |-> FALSE, started_at |-> 0,
       session_id |-> NoneStr],
      [kind |-> "nosession", user_id |-> NoneStr, has_started_at |-> FALSE, started_at |-> 0,
       session_id |-> NoneStr],
      [kind |-> "session", user_id |-> "user-1", has_started_at |-> FALSE, started_at |-> 0,
       session_id |-> "sess-1"],
      [kind |-> "session", user_id |-> "user-1", has_started_at |-> TRUE,
       started_at |-> t - ROTATE_AFTER, session_id |-> "sess-1"],
      [kind |-> "session", user_id |-> "user-1", has_started_at |-> TRUE,
       started_at |-> t - ROTATE_AFTER - 1, session_id |-> "sess-1"],
      [kind |-> "session", user_id |-> NoneStr, has_started_at |-> TRUE,
       started_at |-> t - ROTATE_AFTER - 1, session_id |-> "sess-1"] }

\* answers of stytch_client.sessions.rotate(token)
RotateAnswers == [kind : {"raise"}, session_token : {NoneStr}]
                 \cup [kind : {"ok"}, session_token : Tokens]

\* answers of stytch_client.users.get(user_id)
UserAnswers ==
    { [kind |-> "raise", emails |-> <<>>, has_name |-> FALSE, first_name |-> "", last_name |-> ""],
      [kind |-> "ok", emails |-> <<>>, has_name |-> FALSE, first_name |-> "", last_name |-> ""],
      [kind |-> "ok", emails |-> <<"ann@example.com">>, has_name |-> TRUE,
       first_name |-> "Ann", last_name |-> "Lee"] }

NoAnswer == [kind |-> "none", user_id |-> NoneStr, has_started_at |-> FALSE, started_at |-> 0,
             session_id |-> NoneStr]
NoRotate == [kind |-> "none", session_token |-> NoneStr]
NoUser == [kind |-> "none", emails |-> <<>>, has_name |-> FALSE, first_name |-> "",
           last_name |-> ""]

----------------------------------------------------------------------------
(* Pure helpers of auth/service.py *)

get_session_fingerprint(request) ==
    <<request.client_ip, request.forwarded_for, request.user_agent>>

\* the fingerprints of the requests, and the fingerprint of one more client
Fingerprints == {get_session_fingerprint(r) : r \in Requests} \cup {<<"10.0.0.2", "", "agent">>}

CacheKey(session_token, fingerprint) == <<session_token, fingerprint>>

Truthy(s) == s # NoneStr /\ s # "" /\ s # NoCookie

LocalEmail(user_id) == user_id \o "@stytch.local"

FullName(first_name, last_name) ==
    IF first_name = "" /\ last_name = "" THEN NoneStr
    ELSE IF first_name = "" THEN last_name
    ELSE IF last_name = "" THEN first_name
    ELSE first_name \o " " \o last_name

\* _build_session_data: the user's details, or the fallback record when users.get raises
build_session_data(user_data, fingerprint, user_answer, t) ==
    IF user_answer.kind = "raise"
    THEN [user_id |-> user_data.user_id, email |-> LocalEmail(user_data.user_id),
          name |-> NoneStr, fingerprint |-> fingerprint, last_validated |-> t,
          session_id |-> user_data.session_id]
    ELSE [user_id |-> user_data.user_id,
          email |-> IF Len(user_answer.emails) > 0 THEN user_answer.emails[1]
                    ELSE LocalEmail(user_data.user_id),
          name |-> IF user_answer.has_name
                   THEN FullName(user_answer.first_name, user_answer.last_name)
                   ELSE NoneStr,
          fingerprint |-> fingerprint, last_validated |-> t,
          session_id |-> user_data.session_id]

Without(cache, key) == [k \in DOMAIN cache \ {key} |-> cache[k]]

With(cache, key, entry) == [k \in DOMAIN cache \cup {key} |-> IF k = key THEN entry ELSE cache[k]]

----------------------------------------------------------------------------
(* validate_session_with_cache *)

\* mutant: an entry of exactly CACHE_TTL seconds still counts as fresh
CacheHit_inclusive(cache, key, t) ==
    key \in DOMAIN cache /\ t - cache[key].timestamp <= CACHE_TTL

CacheHit(cache, key, t) ==
    key \in DOMAIN cache /\ t - cache[key].timestamp < CACHE_TTL

\* mutant: an entry of exactly CACHE_MAX_AGE seconds is already dropped
CacheTooOld_inclusive(cache, key, t) ==
    key \in DOMAIN cache /\ t - cache[key].timestamp >= CACHE_MAX_AGE

CacheTooOld(cache, key, t) ==
    key \in DOMAIN cache /\ t - cache[key].timestamp > CACHE_MAX_AGE

\* mutant: a hit re-stamps the entry (sliding expiry)
ServeFromCache_touch(cache, key, t) ==
    [cache |-> With(cache, key, [data |-> cache[key].data, timestamp |-> t]),
     ret |-> cache[key].data, calls |-> <<>>]

\* a hit returns the stored data and touches nothing
ServeFromCache(cache, key, t) == [cache |-> cache, ret |-> cache[key].data, calls |-> <<>>]

\* mutant: any session counts, with or without a user_id
Authenticated_any_session(auth) == auth.kind = "session"

Authenticated(auth) == auth.kind = "session" /\ Truthy(auth.user_id)

\* the result: the cache afterwards, the value returned, the provider calls made
validate_session_with_cache(cache, t, session_token, fingerprint, auth, user_answer) ==
    LET cache_key == CacheKey(session_token, fingerprint)
        cleared == IF CacheTooOld(cache, cache_key, t) THEN Without(cache, cache_key) ELSE cache
        session_data == build_session_data(auth, fingerprint, user_answer, t)
    IN  IF CacheHit(cache, cache_key, t)
        THEN ServeFromCache(cache, cache_key, t)
        ELSE IF Authenticated(auth)
        THEN [cache |-> With(cleared, cache_key, [data |-> session_data, timestamp |-> t]),
              ret |-> session_data,
              calls |-> << <<"sessions.authenticate", session_token>>,
                           <<"users.get", auth.user_id>> >>]
        ELSE [cache |-> cleared, ret |-> None,
              calls |-> << <<"sessions.authenticate", session_token>> >>]

----------------------------------------------------------------------------
(* rotate_session_if_needed *)

\* mutant: a session of exactly ROTATE_AFTER seconds is rotated
NeedsRotation_inclusive(auth, t) ==
    auth.kind = "session" /\ auth.has_started_at /\ t - auth.started_at >= ROTATE_AFTER

NeedsRotation(auth, t) ==
    auth.kind = "session" /\ auth.has_started_at /\ t - auth.started_at > ROTATE_AFTER

rotate_session_if_needed(t, session_token, auth, rot) ==
    IF NeedsRotation(auth, t)
    THEN [ret |-> IF rot.kind = "ok" THEN rot.session_token ELSE NoneStr,
          calls |-> << <<"sessions.authenticate", session_token>>,
                       <<"sessions.rotate", session_token>> >>]
    ELSE [ret |-> NoneStr, calls |-> << <<"sessions.authenticate", session_token>> >>]

----------------------------------------------------------------------------
(* get_current_user *)

\* mutant: only an absent cookie is refused, an empty one goes on
HasCookie_not_none(cookie) == cookie # NoCookie

\* "if not session_token": the cookie is there and not empty
HasCookie(cookie) == cookie # NoCookie /\ cookie # ""

User(session_data) ==
    [user_id |-> session_data.user_id, email |-> session_data.email, name |-> session_data.name]

get_current_user(cache, t, request, auth1, rot, auth2, user_answer) ==
    LET cookie == request.cookie
        fingerprint == get_session_fingerprint(request)
        rotated == rotate_session_if_needed(t, cookie, auth1, rot)
        cache1 == IF Truthy(rotated.ret) THEN Without(cache, CacheKey(cookie, fingerprint))
                  ELSE cache
        session_token == IF Truthy(rotated.ret) THEN rotated.ret ELSE cookie
        validated == validate_session_with_cache(cache1, t, session_token, fingerprint,
                                                 auth2, user_answer)
    IN  IF ~HasCookie(cookie)
        THEN [cache |-> cache, ret |-> None, exc |-> "SessionNotFoundError",
              rcalls |-> <<>>, vcalls |-> <<>>, session_token |-> cookie]
        ELSE IF validated.ret = None
        THEN [cache |-> validated.cache, ret |-> None, exc |-> "InvalidSessionError",
              rcalls |-> rotated.calls, vcalls |-> validated.calls,
              session_token |-> session_token]
        ELSE IF validated.ret.fingerprint # fingerprint
        THEN [cache |-> validated.cache, ret |-> None, exc |-> "InvalidSessionError",
              rcalls |-> rotated.calls, vcalls |-> validated.calls,
              session_token |-> session_token]
        ELSE [cache |-> validated.cache, ret |-> User(validated.ret), exc |-> NoneStr,
              rcalls |-> rotated.calls, vcalls |-> validated.calls,
              session_token |-> session_token]

----------------------------------------------------------------------------
(* Exception classes of auth/exceptions.py and the handlers of main.py *)

AuthErrors == {"AuthenticationError", "SessionNotFoundError", "InvalidSessionError",
               "StytchError"}

\* mutant: the base class is looked up first
Mro_base_first(exc) ==
    IF exc \in AuthErrors THEN <<"AuthenticationError", exc, "Exception">> ELSE <<exc>>

\* the classes of an exception, most specific first
Mro(exc) ==
    IF exc = "AuthenticationError" THEN <<"AuthenticationError", "Exception">>
    ELSE IF exc \in AuthErrors THEN <<exc, "AuthenticationError", "Exception">>
    ELSE <<exc>>

session_not_found_handler ==
    [status |-> HTTP_401_UNAUTHORIZED, detail |-> "Authentication required"]

invalid_session_handler ==
    [status |-> HTTP_401_UNAUTHORIZED, detail |-> "Invalid or expired session"]

stytch_error_handler ==
    [status |-> HTTP_503_SERVICE_UNAVAILABLE,
     detail |-> "Authentication service temporarily unavailable"]

auth_error_handler ==
    [status |-> HTTP_401_UNAUTHORIZED, detail |-> "Authentication failed"]

\* app.exception_handler(cls) registrations
exception_handlers ==
    [cls \in AuthErrors |->
        IF cls = "SessionNotFoundError" THEN session_not_found_handler
        ELSE IF cls = "InvalidSessionError" THEN invalid_session_handler
        ELSE IF cls = "StytchError" THEN stytch_error_handler
        ELSE auth_error_handler]

\* the handler registered for the first class of the exception that has one
RECURSIVE lookup_handler(_)
lookup_handler(classes) ==
    IF classes = <<>> THEN [status |-> 0, detail |-> "unhandled"]
    ELSE IF Head(classes) \in DOMAIN exception_handlers THEN exception_handlers[Head(classes)]
    ELSE lookup_handler(Tail(classes))

\* the answer to a request whose dependency raised exc, or returned (exc = NoneStr); the
\* HTTPException a handler raises is answered by the framework with its status and detail
Respond(exc) ==
    IF exc = NoneStr THEN [status |-> HTTP_200_OK, detail |-> ""]
    ELSE lookup_handler(Mro(exc))

----------------------------------------------------------------------------
(* check_rate_limit of main.py *)

RateKey(client_ip, endpoint) == <<client_ip, endpoint>>

\* rate_limit_store is a defaultdict(list): a missing key reads as the empty list
StoreGet(store, key) == IF key \in DOMAIN store THEN store[key] ELSE <<>>

\* mutant: a request exactly RATE_LIMIT_WINDOW seconds old still counts
InWindow_inclusive(req_time, t) == req_time >= t - RATE_LIMIT_WINDOW

InWindow(req_time, t) == req_time > t - RATE_LIMIT_WINDOW

RECURSIVE Filter(_, _)
Filter(times, t) ==
    IF times = <<>> THEN <<>>
    ELSE IF InWindow(Head(times), t) THEN <<Head(times)>> \o Filter(Tail(times), t)
    ELSE Filter(Tail(times), t)

OverLimit(times) == Len(times) >= RATE_LIMIT_REQUESTS

check_rate_limit(store, t, client_ip, endpoint) ==
    LET key == RateKey(client_ip, endpoint)
        kept == Filter(StoreGet(store, key), t)
    IN  IF OverLimit(kept)
        THEN [store |-> With(store, key, kept), ret |-> FALSE]
        ELSE [store |-> With(store, key, Append(kept, t)), ret |-> TRUE]

----------------------------------------------------------------------------
(* logout and the MFA functions of auth/service.py, logout_endpoint of main.py *)

NoBody == [success |-> FALSE, message |-> ""]

logout == [success |-> TRUE, message |-> "Logged out successfully"]

\* mutant: logout drops the cache entry of the session it is given
logout_endpoint_invalidates(cache, request) ==
    [cache |-> Without(cache, CacheKey(request.cookie, get_session_fingerprint(request))),
     ret |-> logout, calls |-> <<>>, set_cookie |-> <<"stytch_session", "">>]

\* response.delete_cookie tells the client to drop its cookie; the request's own cookie
\* and the cache are not read
logout_endpoint(cache, request) ==
    [cache |-> cache, ret |-> logout, calls |-> <<>>, set_cookie |-> <<"stytch_session", "">>]

ChallengeTypes == {"sms", "totp", "email", ""}
MfaUser == "user-1"

\* mutant: only the sms branch is there
MfaAuthenticateCall_sms_only(challenge_type) ==
    IF challenge_type = "sms" THEN "otps.sms.authenticate" ELSE NoneStr

\* the provider call verify_mfa_code makes for a challenge type, if any
MfaAuthenticateCall(challenge_type) ==
    IF challenge_type = "sms" THEN "otps.sms.authenticate"
    ELSE IF challenge_type = "totp" THEN "totps.authenticate"
    ELSE NoneStr

\* answer is how the provider call ends: "ok" (returned) or "raise"
verify_mfa_code(challenge_type, user_id, answer) ==
    LET api == MfaAuthenticateCall(challenge_type)
    IN  IF api = NoneStr
        THEN [ret |-> [success |-> FALSE, message |-> "Invalid challenge type"],
              calls |-> <<>>, exc |-> NoneStr]
        ELSE IF answer = "raise"
        THEN [ret |-> [success |-> FALSE, message |-> "Invalid code"],
              calls |-> << <<api, user_id>> >>, exc |-> NoneStr]
        ELSE [ret |-> [success |-> TRUE, message |-> "MFA verified"],
              calls |-> << <<api, user_id>> >>, exc |-> NoneStr]

start_mfa_challenge(challenge_type, user_id, answer) ==
    IF challenge_type = "sms"
    THEN [ret |-> IF answer = "raise"
                  THEN [success |-> FALSE, message |-> "Failed to send challenge"]
                  ELSE [success |-> TRUE, message |-> "SMS code sent"],
          calls |-> << <<"otps.sms.send", user_id>> >>]
    ELSE IF challenge_type = "totp"
    THEN [ret |-> [success |-> TRUE, message |-> "Enter code from authenticator app"],
          calls |-> <<>>]
    ELSE [ret |-> [success |-> FALSE, message |-> "Invalid challenge type"], calls |-> <<>>]

----------------------------------------------------------------------------
(* rate_limit_middleware of main.py and the endpoints behind it *)

\* a path is the tuple of its segments: "/auth/me" is <<"auth", "me">>
AuthMePath == <<"auth", "me">>
LogoutPath == <<"auth", "logout">>
HealthPath == <<"health">>
AuthRootPath == <<"auth">>

\* mutant: every path is rate limited
IsAuthPath_any(path) == TRUE

\* request.url.path.startswith("/auth/"): "/auth" itself does not start with "/auth/"
IsAuthPath(path) == Len(path) >= 2 /\ path[1] = "auth"

\* the middleware up to call_next: the store afterwards and whether it raised
rate_limit_middleware(store, t, client_ip, path) ==
    LET r == check_rate_limit(store, t, client_ip, path)
    IN  IF IsAuthPath(path)
        THEN [store |-> r.store, raised |-> ~r.ret, call_next |-> r.ret]
        ELSE [store |-> store, raised |-> FALSE, call_next |-> TRUE]

too_many_requests ==
    [status |-> HTTP_429_TOO_MANY_REQUESTS,
     detail |-> "Too many requests. Please try again later."]

\* An http middleware runs outside the layer that turns an HTTPException into its
\* response (that layer wraps the router only), so the exception the middleware raises
\* reaches the server-error layer, which answers every exception alike.
server_error_response(exc) == [status |-> 500, detail |-> "Internal Server Error"]

----------------------------------------------------------------------------
(* The users table of db/models.py, get_or_create_user of db/crud.py and get_me of *)
(* users/routes.py                                                                  *)

NoArgs == [stytch_user_id |-> NoneStr, email |-> "", name |-> NoneStr]

\* select(User).where(User.stytch_user_id == stytch_user_id), scalar_one_or_none()
select_user(table, stytch_user_id) ==
    LET found == {i \in 1..Len(table) : table[i].stytch_user_id = stytch_user_id}
    IN  IF found = {} THEN None ELSE table[CHOOSE i \in found : TRUE]

\* unique=True on stytch_user_id and on email
StytchUserIdTaken(table, stytch_user_id) ==
    \E i \in 1..Len(table) : table[i].stytch_user_id = stytch_user_id

EmailTaken(table, email, id) ==
    \E i \in 1..Len(table) : table[i].email = email /\ table[i].id # id

\* default=uuid.uuid4: an id no row has; rows are never deleted
new_id(table) == <<"uuid", Len(table) + 1>>

\* models.User(stytch_user_id, email, name, last_login=func.now()), created_at by the server
new_user(table, t, args) ==
    [id |-> new_id(table), stytch_user_id |-> args.stytch_user_id, email |-> args.email,
     name |-> args.name, created_at |-> t, last_login |-> t]

\* session.add(user); await session.commit()
commit_insert(table, row) ==
    IF StytchUserIdTaken(table, row.stytch_user_id) \/ EmailTaken(table, row.email, row.id)
    THEN [table |-> table, exc |-> "IntegrityError"]
    ELSE [table |-> Append(table, row), exc |-> NoneStr]

\* mutant: the name is overwritten also with None
NameGiven_always(name) == TRUE

\* "name is not None"
NameGiven(name) == name # NoneStr

EmailChanged(user, args) == user.email # args.email
NameChanged(user, args) == NameGiven(args.name) /\ user.name # args.name

\* the UPDATE that commit flushes for the loaded row: the attributes that were set
commit_update(table, t, user, args) ==
    IF EmailChanged(user, args) /\ EmailTaken(table, args.email, user.id)
    THEN [table |-> table, exc |-> "IntegrityError"]
    ELSE [table |-> [i \in 1..Len(table) |->
                        IF table[i].id = user.id
                        THEN [table[i] EXCEPT
                                !.email = IF EmailChanged(user, args) THEN args.email ELSE @,
                                !.name = IF NameChanged(user, args) THEN args.name ELSE @,
                                !.last_login = t]
                        ELSE table[i]],
          exc |-> NoneStr]

\* the whole call with nothing in between: the table afterwards, the row returned, the
\* exception that left the call
get_or_create_user(table, t, args) ==
    LET user == select_user(table, args.stytch_user_id)
        c == IF user # None THEN commit_update(table, t, user, args)
             ELSE commit_insert(table, new_user(table, t, args))
    IN  IF c.exc # NoneStr THEN [table |-> table, ret |-> None, exc |-> c.exc]
        ELSE [table |-> c.table, ret |-> select_user(c.table, args.stytch_user_id),
              exc |-> NoneStr]

\* GET /users/me for the authenticated user current
get_me(table, t, current) ==
    LET user == select_user(table, current.user_id)
    IN  IF user # None THEN [table |-> table, ret |-> user, exc |-> NoneStr]
        ELSE get_or_create_user(table, t, [stytch_user_id |-> current.user_id,
                                           email |-> current.email, name |-> current.name])

----------------------------------------------------------------------------
(* State machine *)

NoRequest == [cookie |-> NoCookie, client_ip |-> "", forwarded_for |-> "", user_agent |-> ""]

\* how the provider answered: "none" (not asked), "raise", "nosession", "nouid", "ok"
AnswerClass(auth) ==
    IF auth.kind = "session"
    THEN (IF Truthy(auth.user_id) THEN "ok" ELSE "nouid")
    ELSE auth.kind

Idle == [op |-> "init", request |-> NoRequest, session_token |-> NoneStr,
         fingerprint |-> <<>>, auth1 |-> "none", has_started_at |-> FALSE, session_age |-> 0,
         rot |-> "none", auth2 |-> "none", calls |-> <<>>, ret |-> None,
         ret_token |-> NoneStr, exc |-> NoneStr, response |-> [status |-> 0, detail |-> ""],
         allowed |-> FALSE, path |-> <<>>, limited |-> FALSE, call_next |-> FALSE,
         challenge_type |-> "", provider |-> "none", body |-> NoBody,
         args |-> NoArgs, row |-> None]

Init ==
    /\ now = 0
    /\ session_cache = <<>>
    /\ rate_limit_store = <<>>
    /\ accepted = <<>>
    /\ last = Idle
    /\ users = <<>>
    /\ proc = <<>>
    /\ boot = <<>>

\* the clock moves on to a later value
Tick(t) ==
    /\ t > now
    /\ now' = t
    /\ last' = [Idle EXCEPT !.op = "tick"]
    /\ UNCHANGED <<session_cache, rate_limit_store, accepted, users, proc, boot>>

\* time.time() is the wall clock: it may be set back
ClockSetBack(t) ==
    /\ t < now
    /\ now' = t
    /\ last' = [Idle EXCEPT !.op = "tick"]
    /\ UNCHANGED <<session_cache, rate_limit_store, accepted, users, proc, boot>>

ValidateSessionWithCache(session_token, fingerprint, auth, user_answer) ==
    LET r == validate_session_with_cache(session_cache, now, session_token, fingerprint,
                                         auth, user_answer)
    IN  /\ session_cache' = r.cache
        /\ last' = [Idle EXCEPT !.op = "validate_session_with_cache",
                                !.session_token = session_token,
                                !.fingerprint = fingerprint,
                                !.auth2 = AnswerClass(auth),
                                !.calls = r.calls, !.ret = r.ret]
        /\ UNCHANGED <<now, rate_limit_store, accepted, users, proc, boot>>

RotateSessionIfNeeded(session_token, auth, rot) ==
    LET r == rotate_session_if_needed(now, session_token, auth, rot)
    IN  /\ last' = [Idle EXCEPT !.op = "rotate_session_if_needed",
                                !.session_token = session_token,
                                !.auth1 = AnswerClass(auth),
                                !.has_started_at = auth.has_started_at,
                                !.session_age = IF auth.has_started_at
                                                THEN now - auth.started_at ELSE 0,
                                !.rot = rot.kind,
                                !.calls = r.calls, !.ret_token = r.ret]
        /\ UNCHANGED <<now, session_cache, rate_limit_store, accepted, users, proc, boot>>

GetCurrentUser(request, auth1, rot, auth2, user_answer) ==
    LET r == get_current_user(session_cache, now, request, auth1, rot, auth2, user_answer)
    IN  /\ session_cache' = r.cache
        /\ last' = [Idle EXCEPT !.op = "get_current_user",
                                !.request = request,
                                !.session_token = r.session_token,
                                !.fingerprint = get_session_fingerprint(request),
                                !.auth1 = AnswerClass(auth1),
                                !.rot = rot.kind,
                                !.auth2 = AnswerClass(auth2),
                                !.calls = r.rcalls \o r.vcalls, !.ret = r.ret,
                                !.exc = r.exc, !.response = Respond(r.exc)]
        /\ UNCHANGED <<now, rate_limit_store, accepted, users, proc, boot>>

\* an AuthenticationError raised while a request is served reaches the app's handlers
RaiseInRequest(exc) ==
    /\ last' = [Idle EXCEPT !.op = "raise", !.exc = exc, !.response = Respond(exc)]
    /\ UNCHANGED <<now, session_cache, rate_limit_store, accepted, users, proc, boot>>

CheckRateLimit(client_ip, endpoint) ==
    LET r == check_rate_limit(rate_limit_store, now, client_ip, endpoint)
        key == RateKey(client_ip, endpoint)
    IN  /\ rate_limit_store' = r.store
        /\ accepted' = IF r.ret THEN With(accepted, key, Append(StoreGet(accepted, key), now))
                       ELSE accepted
        /\ last' = [Idle EXCEPT !.op = "check_rate_limit",
                                !.request = [NoRequest EXCEPT !.client_ip = client_ip],
                                !.session_token = endpoint,
                                !.allowed = r.ret]
        /\ UNCHANGED <<now, session_cache, users, proc, boot>>

\* the provider is asked only where the code asks it
RotateChoices(auth, t) == IF NeedsRotation(auth, t) THEN RotateAnswers ELSE {NoRotate}

\* validate_session_with_cache reads the session and its user_id, never started_at
Auth2Choices(cache, t, key) ==
    IF CacheHit(cache, key, t) THEN {NoAnswer}
    ELSE {a \in AuthAnswers(t) : ~a.has_started_at \/ ~Truthy(a.user_id)}

UserChoices(auth) == IF Authenticated(auth) THEN UserAnswers ELSE {NoUser}

\* a request served by get_current_user, with every answer the provider can give
ServeGetCurrentUser ==
    \E q \in Requests, a1 \in AuthAnswers(now) :
         IF ~HasCookie(q.cookie) THEN GetCurrentUser(q, NoAnswer, NoRotate, NoAnswer, NoUser)
         ELSE \E r \in RotateChoices(a1, now) :
                LET tok == IF r.kind = "ok" THEN r.session_token ELSE q.cookie
                    c1 == IF r.kind = "ok"
                          THEN Without(session_cache, CacheKey(q.cookie, get_session_fingerprint(q)))
                          ELSE session_cache
                IN  \E a2 \in Auth2Choices(c1, now, CacheKey(tok, get_session_fingerprint(q))) :
                      \E u \in UserChoices(a2) : GetCurrentUser(q, a1, r, a2, u)

Next ==
    \/ \E t \in ClockValues : Tick(t)
    \/ ServeGetCurrentUser
    \/ \E t \in Tokens, a \in AuthAnswers(now) :
         \E r \in RotateChoices(a, now) : RotateSessionIfNeeded(t, a, r)
    \/ \E e \in AuthErrors : RaiseInRequest(e)

Spec == Init /\ [][Next]_vars

\* the cache function alone, called with every token and fingerprint, under a clock
\* that moves either way
ProbeKeys == Tokens \X Fingerprints

NextCache ==
    \/ \E t \in ClockValues : Tick(t)
    \/ \E t \in ClockValues : ClockSetBack(t)
    \/ \E k \in ProbeKeys :
         \E a \in Auth2Choices(session_cache, now, CacheKey(k[1], k[2])) :
           \E u \in UserChoices(a) : ValidateSessionWithCache(k[1], k[2], a, u)

SpecCache == Init /\ [][NextCache]_vars

\* the rate limiter alone, under a clock that never goes back
RateClockValues == {0, 30, MaxRateClock}

NextRate ==
    \/ \E t \in RateClockValues : Tick(t)
    \/ \E ip \in ClientIps, path \in {"/auth/me"} : CheckRateLimit(ip, path)

SpecRate == Init /\ [][NextRate]_vars

----------------------------------------------------------------------------
(* The service functions together: sessions, logout and MFA *)

LogoutEndpoint(request) ==
    LET r == logout_endpoint(session_cache, request)
    IN  /\ session_cache' = r.cache
        /\ last' = [Idle EXCEPT !.op = "logout_endpoint", !.request = request,
                                !.fingerprint = get_session_fingerprint(request),
                                !.calls = r.calls, !.body = r.ret,
                                !.response = [status |-> HTTP_200_OK, detail |-> ""]]
        /\ UNCHANGED <<now, rate_limit_store, accepted, users, proc, boot>>

VerifyMfaCode(challenge_type, answer) ==
    LET r == verify_mfa_code(challenge_type, MfaUser, answer)
    IN  /\ last' = [Idle EXCEPT !.op = "verify_mfa_code", !.challenge_type = challenge_type,
                                !.provider = IF r.calls = <<>> THEN "none" ELSE answer,
                                !.calls = r.calls, !.body = r.ret, !.exc = r.exc]
        /\ UNCHANGED <<now, session_cache, rate_limit_store, accepted, users, proc, boot>>

StartMfaChallenge(challenge_type, answer) ==
    LET r == start_mfa_challenge(challenge_type, MfaUser, answer)
    IN  /\ last' = [Idle EXCEPT !.op = "start_mfa_challenge", !.challenge_type = challenge_type,
                                !.provider = IF r.calls = <<>> THEN "none" ELSE answer,
                                !.calls = r.calls, !.body = r.ret]
        /\ UNCHANGED <<now, session_cache, rate_limit_store, accepted, users, proc, boot>>

ProviderOutcomes == {"ok", "raise"}

NextService ==
    \/ \E t \in ClockValues : Tick(t)
    \/ ServeGetCurrentUser
    \/ \E q \in Requests : LogoutEndpoint(q)
    \/ \E c \in ChallengeTypes, a \in ProviderOutcomes : VerifyMfaCode(c, a)
    \/ \E c \in ChallengeTypes, a \in ProviderOutcomes : StartMfaChallenge(c, a)

SpecService == Init /\ [][NextService]_vars

----------------------------------------------------------------------------
(* The users table under calls that run one after the other *)

GetOrCreateUser(args) ==
    LET r == get_or_create_user(users, now, args)
    IN  /\ users' = r.table
        /\ last' = [Idle EXCEPT !.op = "get_or_create_user", !.args = args, !.row = r.ret,
                                !.exc = r.exc]
        /\ UNCHANGED <<now, session_cache, rate_limit_store, accepted, proc, boot>>

GetMe(current) ==
    LET r == get_me(users, now, current)
    IN  /\ users' = r.table
        /\ last' = [Idle EXCEPT !.op = "get_me",
                                !.args = [stytch_user_id |-> current.user_id,
                                          email |-> current.email, name |-> current.name],
                                !.row = r.ret, !.exc = r.exc,
                                !.response = IF r.exc = NoneStr
                                             THEN [status |-> HTTP_200_OK, detail |-> ""]
                                             ELSE server_error_response(r.exc)]
        /\ UNCHANGED <<now, session_cache, rate_limit_store, accepted, proc, boot>>

StytchUserIds == {"user-1", "user-2"}
Emails == {"ann@example.com", "user-1@stytch.local"}
Names == {NoneStr, "Ann Lee", "Ann"}

CallArgs == [stytch_user_id : StytchUserIds, email : Emails, name : Names]
CurrentUsers == [user_id : StytchUserIds, email : Emails, name : Names]

DbClockValues == {0, MaxDbClock}

NextDb ==
    \/ \E t \in DbClockValues : Tick(t)
    \/ \E a \in CallArgs : GetOrCreateUser(a)
    \/ \E c \in CurrentUsers : GetMe(c)

SpecDb == Init /\ [][NextDb]_vars

----------------------------------------------------------------------------
(* The users table under calls that interleave at their awaits: every call has its own *)
(* session, and each awaited statement (select, commit, refresh) is one step           *)

Procs == {1, 2}

ConcArgs == [stytch_user_id : {"user-1"}, email : Emails, name : {NoneStr, "Ann Lee"}]

\* a call starts: op is "get_me" or "get_or_create_user"; unstored records that no row
\* of its stytch_user_id was there when it started
StartCall(p, op, args) ==
    /\ p \notin DOMAIN proc
    /\ proc' = With(proc, p, [op |-> op, args |-> args,
                              pc |-> IF op = "get_me" THEN "route_select" ELSE "crud_select",
                              user |-> None, ret |-> None, exc |-> NoneStr,
                              unstored |-> select_user(users, args.stytch_user_id) = None])
    /\ last' = [Idle EXCEPT !.op = "start"]
    /\ UNCHANGED <<now, session_cache, rate_limit_store, accepted, users, boot>>

\* get_me's own select: a row that is found is returned as it is
RouteSelect(p) ==
    /\ p \in DOMAIN proc
    /\ proc[p].pc = "route_select"
    /\ LET user == select_user(users, proc[p].args.stytch_user_id)
       IN  proc' = [proc EXCEPT ![p].pc = IF user # None THEN "done" ELSE "crud_select",
                                ![p].ret = user]
    /\ last' = [Idle EXCEPT !.op = "route_select"]
    /\ UNCHANGED <<now, session_cache, rate_limit_store, accepted, users, boot>>

\* the select of get_or_create_user
CrudSelect(p) ==
    /\ p \in DOMAIN proc
    /\ proc[p].pc = "crud_select"
    /\ proc' = [proc EXCEPT ![p].pc = "commit",
                            ![p].user = select_user(users, proc[p].args.stytch_user_id)]
    /\ last' = [Idle EXCEPT !.op = "crud_select"]
    /\ UNCHANGED <<now, session_cache, rate_limit_store, accepted, users, boot>>

\* await session.commit(): the INSERT or the UPDATE reaches the table, or the call ends
\* with the error of the constraint it breaks
Commit(p) ==
    /\ p \in DOMAIN proc
    /\ proc[p].pc = "commit"
    /\ LET user == proc[p].user
           args == proc[p].args
           row == new_user(users, now, args)
           c == IF user # None THEN commit_update(users, now, user, args)
                ELSE commit_insert(users, row)
           updated == user # None /\ (EmailChanged(user, args) \/ NameChanged(user, args))
           loaded == IF user # None
                     THEN [user EXCEPT !.email = args.email,
                                       !.name = IF NameChanged(user, args) THEN args.name ELSE @,
                                       !.last_login = now]
                     ELSE row
       IN  /\ users' = c.table
           /\ proc' = [proc EXCEPT ![p].pc = IF c.exc # NoneStr THEN "done"
                                             ELSE IF user = None \/ updated THEN "refresh"
                                             ELSE "done",
                                    ![p].user = loaded,
                                    ![p].ret = IF c.exc = NoneStr /\ user # None /\ ~updated
                                               THEN loaded ELSE None,
                                    ![p].exc = c.exc]
    /\ last' = [Idle EXCEPT !.op = "commit"]
    /\ UNCHANGED <<now, session_cache, rate_limit_store, accepted, boot>>

\* await session.refresh(user): the row is read again by its primary key
Refresh(p) ==
    /\ p \in DOMAIN proc
    /\ proc[p].pc = "refresh"
    /\ LET found == {i \in 1..Len(users) : users[i].id = proc[p].user.id}
       IN  proc' = [proc EXCEPT ![p].pc = "done",
                                ![p].ret = users[CHOOSE i \in found : TRUE]]
    /\ last' = [Idle EXCEPT !.op = "refresh"]
    /\ UNCHANGED <<now, session_cache, rate_limit_store, accepted, users, boot>>

\* the calls that have ended are forgotten, once no call runs
Finish ==
    /\ proc # <<>>
    /\ \A p \in DOMAIN proc : proc[p].pc = "done"
    /\ proc' = <<>>
    /\ last' = [Idle EXCEPT !.op = "finish"]
    /\ UNCHANGED <<now, session_cache, rate_limit_store, accepted, users, boot>>

NextDbConc ==
    \/ \E p \in Procs, op \in {"get_me", "get_or_create_user"}, a \in ConcArgs :
         StartCall(p, op, a)
    \/ \E p \in Procs : RouteSelect(p)
    \/ \E p \in Procs : CrudSelect(p)
    \/ \E p \in Procs : Commit(p)
    \/ \E p \in Procs : Refresh(p)
    \/ Finish

SpecDbConc == Init /\ [][NextDbConc]_vars

----------------------------------------------------------------------------
(* init_db of db/session.py. time.monotonic() is a clock of its own, kept in boot and *)
(* counted in half seconds, so that asyncio.sleep(1.5) is three of them               *)

HalfSeconds(seconds) == 2 * seconds
SleepTime == 3

\* "while time.monotonic() < deadline"
BeforeDeadline(b) == b.monotonic < b.deadline

\* where init_db goes at the head of its loop: into an attempt, or out of the loop, where
\* it raises last_err if there is one and returns None if there is none
LoopHead(b) ==
    IF BeforeDeadline(b)
    THEN [b EXCEPT !.pc = "create_all", !.attempts = @ + 1,
                   !.late = @ \/ b.monotonic >= b.deadline,
                   !.again = @ \/ b.successes > 0]
    ELSE IF b.last_err # None THEN [b EXCEPT !.pc = "raised", !.exc = b.last_err]
    ELSE [b EXCEPT !.pc = "returned"]

\* init_db(timeout_seconds) is called: the deadline is set and the loop is entered
InitDb(timeout_seconds, start) ==
    /\ boot = <<>>
    /\ boot' = LoopHead([pc |-> "start", timeout_seconds |-> timeout_seconds,
                         monotonic |-> start,
                         deadline |-> start + HalfSeconds(timeout_seconds),
                         last_err |-> None, exc |-> None, attempts |-> 0, successes |-> 0,
                         late |-> FALSE, again |-> FALSE])
    /\ last' = [Idle EXCEPT !.op = "init_db"]
    /\ UNCHANGED <<now, session_cache, rate_limit_store, accepted, users, proc>>

\* the attempt ends after some time: create_all went through and init_db returns, or it
\* raised and the error is kept
CreateAll(ok, duration) ==
    /\ boot # <<>>
    /\ boot.pc = "create_all"
    /\ boot' = IF ok
               THEN [boot EXCEPT !.pc = "returned", !.monotonic = @ + duration,
                                 !.successes = @ + 1]
               ELSE [boot EXCEPT !.pc = "sleep", !.monotonic = @ + duration,
                                 !.last_err = [error_of_attempt |-> boot.attempts]]
    /\ last' = [Idle EXCEPT !.op = "create_all"]
    /\ UNCHANGED <<now, session_cache, rate_limit_store, accepted, users, proc>>

\* asyncio.sleep(1.5) returns, no earlier than after 1.5 seconds, and the loop goes round
Sleep(overrun) ==
    /\ boot # <<>>
    /\ boot.pc = "sleep"
    /\ boot' = LoopHead([boot EXCEPT !.monotonic = @ + SleepTime + overrun])
    /\ last' = [Idle EXCEPT !.op = "sleep"]
    /\ UNCHANGED <<now, session_cache, rate_limit_store, accepted, users, proc>>

NextInitDb ==
    \/ \E ts \in 0..MaxTimeout, start \in {0, 7} : InitDb(ts, start)
    \/ \E ok \in BOOLEAN, d \in {0, 1, MaxAttemptTime} : CreateAll(ok, d)
    \/ \E o \in {0, 1} : Sleep(o)

SpecInitDb == Init /\ [][NextInitDb]_vars

\* every await of init_db ends: the database call returns or raises, the sleep returns
SpecInitDbFair == SpecInitDb /\ WF_vars(NextInitDb)

----------------------------------------------------------------------------
(* Requests through the middleware *)

\* the rest of the application for a request the middleware lets through
call_next(path, cache, t, request, auth1, rot, auth2, user_answer) ==
    LET g == get_current_user(cache, t, request, auth1, rot, auth2, user_answer)
        l == logout_endpoint(cache, request)
    IN  IF path = AuthMePath
        THEN [cache |-> g.cache, response |-> Respond(g.exc), calls |-> g.rcalls \o g.vcalls,
              body |-> NoBody, exc |-> g.exc]
        ELSE IF path = LogoutPath
        THEN [cache |-> l.cache, response |-> [status |-> HTTP_200_OK, detail |-> ""],
              calls |-> l.calls, body |-> l.ret, exc |-> NoneStr]
        ELSE IF path = HealthPath
        THEN [cache |-> cache, response |-> [status |-> HTTP_200_OK, detail |-> ""],
              calls |-> <<>>, body |-> [success |-> TRUE, message |-> "healthy"],
              exc |-> NoneStr]
        ELSE [cache |-> cache, response |-> [status |-> 404, detail |-> "Not Found"],
              calls |-> <<>>, body |-> NoBody, exc |-> NoneStr]

HttpRequest(request, path, auth1, rot, auth2, user_answer) ==
    LET m == rate_limit_middleware(rate_limit_store, now, request.client_ip, path)
        e == call_next(path, session_cache, now, request, auth1, rot, auth2, user_answer)
        key == <<request.client_ip, path>>
    IN  /\ rate_limit_store' = m.store
        /\ accepted' = IF m.store # rate_limit_store /\ m.call_next
                       THEN With(accepted, key, Append(StoreGet(accepted, key), now))
                       ELSE accepted
        /\ session_cache' = IF m.call_next THEN e.cache ELSE session_cache
        /\ last' = IF m.call_next
                   THEN [Idle EXCEPT !.op = "http", !.request = request, !.path = path,
                                     !.fingerprint = get_session_fingerprint(request),
                                     !.call_next = TRUE, !.calls = e.calls, !.body = e.body,
                                     !.exc = e.exc, !.response = e.response]
                   ELSE [Idle EXCEPT !.op = "http", !.request = request, !.path = path,
                                     !.fingerprint = get_session_fingerprint(request),
                                     !.limited = m.raised, !.exc = "HTTPException",
                                     !.response = server_error_response("HTTPException")]
        /\ UNCHANGED <<now, users, proc, boot>>

HttpClientIps == {"10.0.0.1", "10.0.0.2"}

HttpRequests == [cookie : {"tokA"}, client_ip : HttpClientIps, forwarded_for : {""},
                 user_agent : {"agent"}]

\* the clients and the paths they ask for
HttpTargets ==
    {<<q, AuthMePath>> : q \in HttpRequests}
    \cup {<<q, p>> : q \in {r \in HttpRequests : r.client_ip = "10.0.0.1"},
                     p \in {LogoutPath, HealthPath, AuthRootPath}}

\* the provider's answers here: it knows the session or it cannot be reached
HttpAuthAnswers == {a \in AuthAnswers(now) : a.kind = "raise" \/ (Truthy(a.user_id) /\ ~a.has_started_at)}

NextHttp ==
    \E tg \in HttpTargets, a1 \in HttpAuthAnswers :
       LET q == tg[1]
       IN  \E a2 \in (IF CacheHit(session_cache, CacheKey(q.cookie, get_session_fingerprint(q)), now)
                       THEN {NoAnswer} ELSE {a1}) :
             \E u \in (IF Authenticated(a2) THEN {x \in UserAnswers : x.kind = "raise"}
                        ELSE {NoUser}) :
               IF tg[2] = AuthMePath THEN HttpRequest(q, tg[2], a1, NoRotate, a2, u)
               ELSE HttpRequest(q, tg[2], NoAnswer, NoRotate, NoAnswer, NoUser)

SpecHttp == Init /\ [][NextHttp]_vars

----------------------------------------------------------------------------
(* Claims *)

LastKey == CacheKey(last.session_token, last.fingerprint)
LastKeyNext == CacheKey(last'.session_token, last'.fingerprint)
CookieKeyNext == CacheKey(last'.request.cookie, last'.fingerprint)

Asked(calls, api) == \E i \in 1..Len(calls) : calls[i][1] = api

\* the entry of the key is there and younger than CACHE_TTL
Fresh(cache, key, t) == key \in DOMAIN cache /\ t - cache[key].timestamp < 300

\* C1: whenever validate_session_with_cache returns a record, either the provider
\* authenticated the token in that call, or the record is the data of the key's cache
\* entry and that entry is less than 300 seconds old.
C1_StalenessBound ==
    [][ (last'.op = "validate_session_with_cache" /\ last'.ret # None) =>
          \/ /\ last'.auth2 = "ok"
             /\ last'.calls # <<>>
             /\ last'.calls[1] = <<"sessions.authenticate", last'.session_token>>
          \/ /\ last'.calls = <<>>
             /\ Fresh(session_cache, LastKeyNext, now)
             /\ last'.ret = session_cache[LastKeyNext].data ]_vars

\* C1 witness: a record was returned from an entry that is 150 seconds old
C1_Witness ==
    /\ last.op = "validate_session_with_cache"
    /\ last.ret # None
    /\ last.calls = <<>>
    /\ LastKey \in DOMAIN session_cache
    /\ now - session_cache[LastKey].timestamp = 150

\* C2: a get_current_user request whose cookie token and fingerprint have a cache entry
\* younger than 300 seconds makes no sessions.authenticate call.
C2_NoProviderCallOnHit ==
    [][ (/\ last'.op = "get_current_user"
         /\ HasCookie(last'.request.cookie)
         /\ Fresh(session_cache, CookieKeyNext, now))
        => ~Asked(last'.calls, "sessions.authenticate") ]_vars

\* C3: a lookup that finds an entry younger than 300 seconds returns exactly the stored
\* data, asks the provider nothing and leaves session_cache as it was.
C3_HitReadOnly ==
    [][ (/\ last'.op = "validate_session_with_cache"
         /\ Fresh(session_cache, LastKeyNext, now))
        => /\ last'.ret = session_cache[LastKeyNext].data
           /\ last'.calls = <<>>
           /\ session_cache' = session_cache ]_vars

\* C3 witness: a hit on an entry stored 150 seconds ago, which keeps its timestamp
C3_Witness ==
    /\ last.op = "validate_session_with_cache"
    /\ last.calls = <<>>
    /\ LastKey \in DOMAIN session_cache
    /\ last.ret = session_cache[LastKey].data
    /\ session_cache[LastKey].timestamp = now - 150

\* C4: a lookup of an entry older than 900 seconds asks the provider and leaves the key
\* in the cache exactly when the provider authenticated, then stamped now; a lookup of an
\* entry of 300 to 900 seconds asks the provider too, and when the provider fails the
\* call returns None and session_cache is as it was.
C4_ForcedRevalidation ==
    [][ (last'.op = "validate_session_with_cache" /\ LastKeyNext \in DOMAIN session_cache) =>
          LET key == LastKeyNext
              age == now - session_cache[key].timestamp
          IN  /\ age > 900 =>
                   /\ Asked(last'.calls, "sessions.authenticate")
                   /\ (key \in DOMAIN session_cache') = (last'.auth2 = "ok")
                   /\ key \in DOMAIN session_cache' => session_cache'[key].timestamp = now
                   /\ \A k \in DOMAIN session_cache \ {key} :
                        k \in DOMAIN session_cache' /\ session_cache'[k] = session_cache[k]
              /\ (age >= 300 /\ age <= 900) =>
                   /\ Asked(last'.calls, "sessions.authenticate")
                   /\ last'.auth2 # "ok" => (last'.ret = None /\ session_cache' = session_cache)
                   /\ last'.auth2 = "ok" => session_cache'[key].timestamp = now ]_vars

\* C4 witness: the provider failed on an entry exactly 900 seconds old, which stays
C4_Witness ==
    /\ last.op = "validate_session_with_cache"
    /\ last.ret = None
    /\ last.auth2 = "raise"
    /\ LastKey \in DOMAIN session_cache
    /\ now - session_cache[LastKey].timestamp = 900

\* C5: rotate_session_if_needed returns a new token exactly when the provider returned a
\* session, the session is more than 1800 seconds old and rotate succeeded; otherwise it
\* returns None; rotate is never called for a session of 1800 seconds or less.
C5_Rotation ==
    last.op = "rotate_session_if_needed" =>
        /\ (last.ret_token # NoneStr) =
              (/\ last.auth1 \in {"ok", "nouid"}
               /\ last.has_started_at
               /\ last.session_age > 1800
               /\ last.rot = "ok")
        /\ last.ret_token # NoneStr => last.ret_token \in Tokens
        /\ Asked(last.calls, "sessions.rotate") =>
              (last.has_started_at /\ last.session_age > 1800)

\* C5 witness: a session of 1801 seconds was rotated
C5_Witness ==
    /\ last.op = "rotate_session_if_needed"
    /\ last.ret_token \in Tokens
    /\ last.session_age = 1801

\* C6: a request with no or an empty stytch_session cookie raises SessionNotFoundError,
\* makes no provider call and leaves session_cache as it was.
C6_NoCookie ==
    [][ (last'.op = "get_current_user" /\ last'.request.cookie \in {NoCookie, ""}) =>
          /\ last'.exc = "SessionNotFoundError"
          /\ last'.calls = <<>>
          /\ session_cache' = session_cache ]_vars

\* C6 witness: an empty cookie was refused while the cache holds entries
C6_Witness ==
    /\ last.op = "get_current_user"
    /\ last.request.cookie = ""
    /\ last.exc = "SessionNotFoundError"
    /\ session_cache # <<>>

\* no entry of the key was added or refreshed by the step
NotAddedOrRefreshed(key) ==
    key \in DOMAIN session_cache' =>
        (key \in DOMAIN session_cache /\ session_cache'[key] = session_cache[key])

\* C7 as stated: when no sessions.authenticate call of the request authenticates and the
\* cookie token has no entry younger than 300 seconds, get_current_user raises
\* InvalidSessionError, returns no User and adds or refreshes no entry of the cookie's key.
C7_AsStated ==
    [][ (/\ last'.op = "get_current_user"
         /\ HasCookie(last'.request.cookie)
         /\ last'.auth1 # "ok"
         /\ last'.auth2 # "ok"
         /\ ~Fresh(session_cache, CookieKeyNext, now))
        => /\ last'.exc = "InvalidSessionError"
           /\ last'.ret = None
           /\ NotAddedOrRefreshed(CookieKeyNext) ]_vars

\* C7 amended: when the provider does not authenticate the token that is validated (the
\* cookie token, or the token a rotation returned) and that token has no entry younger
\* than 300 seconds, get_current_user raises InvalidSessionError, returns no User and
\* adds or refreshes no entry of that token's key.
C7_FailedValidationRejected ==
    [][ (/\ last'.op = "get_current_user"
         /\ HasCookie(last'.request.cookie)
         /\ last'.auth2 # "ok"
         /\ ~Fresh(session_cache, LastKeyNext, now))
        => /\ last'.exc = "InvalidSessionError"
           /\ last'.ret = None
           /\ Asked(last'.calls, "sessions.authenticate")
           /\ NotAddedOrRefreshed(LastKeyNext) ]_vars

\* C7 witness: after a rotation the provider refused the new token
C7_Witness ==
    /\ last.op = "get_current_user"
    /\ last.exc = "InvalidSessionError"
    /\ last.auth2 = "nouid"
    /\ last.rot = "ok"
    /\ last.session_token # last.request.cookie
    /\ LastKey \notin DOMAIN session_cache

\* C8: when every provider call of a request with a cookie raises, get_current_user
\* raises StytchError and the request is answered 503.
C8_OutageIsServiceError ==
    (/\ last.op = "get_current_user"
     /\ HasCookie(last.request.cookie)
     /\ last.auth1 = "raise"
     /\ last.auth2 = "raise")
    => (last.exc = "StytchError" /\ last.response.status = 503)

\* C9: an authentication error is answered by the handler of its most specific class:
\* SessionNotFoundError 401 'Authentication required', InvalidSessionError 401 'Invalid or
\* expired session', StytchError 503, any other AuthenticationError 401 'Authentication
\* failed'; never a 2xx or a 500.
C9_ErrorStatus ==
    last.exc # NoneStr =>
        /\ last.exc = "SessionNotFoundError" =>
              last.response = [status |-> 401, detail |-> "Authentication required"]
        /\ last.exc = "InvalidSessionError" =>
              last.response = [status |-> 401, detail |-> "Invalid or expired session"]
        /\ last.exc = "StytchError" =>
              (/\ last.response.status = 503
               /\ last.response.detail = "Authentication service temporarily unavailable")
        /\ last.exc = "AuthenticationError" =>
              last.response = [status |-> 401, detail |-> "Authentication failed"]
        /\ last.response.status \notin (200..299) \cup {500}

\* C9 witness: get_current_user failed with InvalidSessionError and was answered 401
C9_Witness ==
    /\ last.op = "get_current_user"
    /\ last.exc = "InvalidSessionError"
    /\ last.response.status = 401

\* the accepted calls of a key with a timestamp in the window (t - 60, t]
AcceptedIn(key, t) ==
    {i \in 1..Len(StoreGet(accepted, key)) :
        accepted[key][i] > t - 60 /\ accepted[key][i] <= t}

\* C10: per key, at most 10 accepted calls have timestamps in any window (t - 60, t], and
\* a call is refused exactly when 10 calls accepted before it have timestamps greater
\* than now - 60.
C10_SlidingWindow ==
    /\ \A key \in DOMAIN accepted : \A t \in 0..now : Cardinality(AcceptedIn(key, t)) <= 10
    /\ last.op = "check_rate_limit" =>
          LET key == RateKey(last.request.client_ip, last.session_token)
              before == Cardinality(AcceptedIn(key, now)) - (IF last.allowed THEN 1 ELSE 0)
          IN  (~last.allowed) = (before = 10)

\* C10 witness: an eleventh call of a key was accepted, once the window had moved on
C10_Witness ==
    /\ last.op = "check_rate_limit"
    /\ last.allowed
    /\ Len(StoreGet(accepted, RateKey(last.request.client_ip, last.session_token))) > 10

RequestKeyNext == <<last'.request.client_ip, last'.path>>

\* C11: a request to an /auth/ path that exceeds the rate limit is answered with HTTP 429
\* "Too many requests. Please try again later." and is not passed on: call_next is not
\* invoked, no provider is asked.
C11_RejectedWith429 ==
    (last.op = "http" /\ last.limited) =>
        /\ last.response = too_many_requests
        /\ ~last.call_next
        /\ last.calls = <<>>

\* the part of C11 that the code keeps: a rejected request goes no further than the
\* middleware, whatever the status of its answer
C11_NotPassedOn ==
    [][ (last'.op = "http" /\ last'.limited) =>
          /\ ~last'.call_next
          /\ last'.calls = <<>>
          /\ session_cache' = session_cache ]_vars

\* C12: a request whose path does not start with "/auth/" is never rejected by the limiter
\* and never changes rate_limit_store; a request under one (client_ip, path) key changes
\* the list of no other key, and it is rejected exactly when 10 requests accepted under
\* its own key are in the window.
C12_ScopedAndIsolated ==
    [][ last'.op = "http" =>
          /\ ~(Len(last'.path) >= 2 /\ last'.path[1] = "auth") =>
                (~last'.limited /\ rate_limit_store' = rate_limit_store)
          /\ \A k \in (DOMAIN rate_limit_store \cup DOMAIN rate_limit_store') \ {RequestKeyNext} :
                /\ k \in DOMAIN rate_limit_store
                /\ k \in DOMAIN rate_limit_store'
                /\ rate_limit_store'[k] = rate_limit_store[k]
          /\ last'.limited = (Cardinality(AcceptedIn(RequestKeyNext, now)) = 10) ]_vars

\* C12 witness: a client's request to /auth/me is let through while another client's list
\* for the same path, and its own list for another path, are full
C12_Witness ==
    /\ last.op = "http"
    /\ last.path = AuthMePath
    /\ last.request.client_ip = "10.0.0.1"
    /\ last.call_next
    /\ Len(StoreGet(rate_limit_store, <<"10.0.0.2", AuthMePath>>)) = 10
    /\ Len(StoreGet(rate_limit_store, <<"10.0.0.1", LogoutPath>>)) = 10
    /\ Len(StoreGet(rate_limit_store, <<"10.0.0.1", AuthMePath>>)) = 1
    /\ <<"10.0.0.1", HealthPath>> \notin DOMAIN rate_limit_store

\* the rows of a stytch_user_id
RowsOf(table, stytch_user_id) ==
    {i \in 1..Len(table) : table[i].stytch_user_id = stytch_user_id}

\* C13: after a successful GET /users/me for an authenticated user exactly one users row
\* with that stytch_user_id exists and its email is the authenticated user's email,
\* whether the row was there before or not.
C13_Upsert ==
    [][ (last'.op = "get_me" /\ last'.exc = NoneStr) =>
          /\ Cardinality(RowsOf(users', last'.args.stytch_user_id)) = 1
          /\ \A i \in RowsOf(users', last'.args.stytch_user_id) :
                users'[i].email = last'.args.email ]_vars

\* C14: every successful GET /users/me, for a user with a row as for a new one, sets the
\* row's last_login to the time of the request.
C14_LastLoginOnAccess ==
    [][ (last'.op = "get_me" /\ last'.exc = NoneStr) =>
          /\ RowsOf(users', last'.args.stytch_user_id) # {}
          /\ \A i \in RowsOf(users', last'.args.stytch_user_id) :
                users'[i].last_login = now ]_vars

AtMostOneRowPerUser ==
    \A i, j \in 1..Len(users) : users[i].stytch_user_id = users[j].stytch_user_id => i = j

\* what C15 says of one call, from the table before to the table after
GetOrCreateStep ==
    LET a == last'.args
        before == select_user(users, a.stytch_user_id)
        after == select_user(users', a.stytch_user_id)
    IN  /\ last'.exc = NoneStr
        /\ after # None
        /\ last'.row = after
        /\ after.email = a.email
        /\ IF before = None
           THEN /\ Len(users') = Len(users) + 1
                /\ SubSeq(users', 1, Len(users)) = users
                /\ after.name = a.name
           ELSE /\ Len(users') = Len(users)
                /\ \A i \in 1..Len(users) :
                      users[i].stytch_user_id # a.stytch_user_id => users'[i] = users[i]
                /\ after.name = (IF a.name # NoneStr THEN a.name ELSE before.name)
                /\ after.id = before.id
                /\ after.stytch_user_id = before.stytch_user_id
                /\ after.created_at = before.created_at

\* C15 as it is stated: every call of get_or_create_user inserts or updates as described,
\* and the table never holds two rows of one stytch_user_id.
C15_AsStated ==
    /\ []AtMostOneRowPerUser
    /\ [][ last'.op = "get_or_create_user" => GetOrCreateStep ]_vars

\* the given email is the email of the row of another stytch_user_id
EmailClash ==
    \E i \in 1..Len(users) :
        /\ users[i].email = last'.args.email
        /\ users[i].stytch_user_id # last'.args.stytch_user_id

\* C15, amended: a call whose email is not held by the row of another stytch_user_id
\* inserts or updates as described; a call whose email is held by such a row raises the
\* integrity error of the commit and leaves the table as it was; the table never holds
\* two rows of one stytch_user_id.
C15_GetOrCreate ==
    /\ []AtMostOneRowPerUser
    /\ [][ last'.op = "get_or_create_user" =>
             IF EmailClash
             THEN last'.exc = "IntegrityError" /\ last'.row = None /\ users' = users
             ELSE GetOrCreateStep ]_vars

\* C15 witness: a call with name None for a stored user whose email had changed: the
\* email is overwritten, the stored name stays and last_login moves on
C15_Witness ==
    /\ last.op = "get_or_create_user"
    /\ last.exc = NoneStr
    /\ last.args.name = NoneStr
    /\ last.row # None
    /\ last.row.name = "Ann Lee"
    /\ last.row.email = "ann@example.com"
    /\ last.row.created_at = 0
    /\ last.row.last_login = MaxDbClock
    /\ Len(users) = 2

\* C16: when two calls for the same, not yet stored stytch_user_id interleave at their
\* awaits, both return the row of that id, exactly one such row exists afterwards and
\* neither call ends in an error.
C16_BothSucceed ==
    (/\ DOMAIN proc = Procs
     /\ \A p \in Procs : proc[p].pc = "done" /\ proc[p].unstored
     /\ proc[1].args.stytch_user_id = proc[2].args.stytch_user_id)
    => /\ \A p \in Procs :
            /\ proc[p].exc = NoneStr
            /\ proc[p].ret # None
            /\ proc[p].ret.stytch_user_id = proc[p].args.stytch_user_id
       /\ Cardinality(RowsOf(users, proc[1].args.stytch_user_id)) = 1

InitDbEnded == boot # <<>> /\ boot.pc \in {"returned", "raised"}

\* C17: when init_db has ended, it has returned after a create_all attempt that went
\* through, or it has raised the error of the last failed attempt once the deadline had
\* passed with every attempt failing; it makes no attempt after a success and starts
\* none once the deadline has passed.
C17_EndsInSuccessOrError ==
    boot # <<>> =>
        /\ boot.pc = "returned" => (boot.successes = 1 /\ boot.exc = None)
        /\ boot.pc = "raised" =>
              /\ boot.successes = 0
              /\ boot.attempts > 0
              /\ boot.monotonic >= boot.deadline
              /\ boot.exc = [error_of_attempt |-> boot.attempts]
        /\ ~boot.again
        /\ ~boot.late

\* what the code keeps of C17: with a timeout above zero init_db ends as the claim says,
\* and under SpecInitDbFair it does end
C17_PositiveTimeout ==
    /\ [](boot # <<>> /\ boot.timeout_seconds > 0 => C17_EndsInSuccessOrError)
    /\ [](boot # <<>> => ~boot.again /\ ~boot.late)
    /\ (boot # <<>>) ~> InitDbEnded

\* C18: verify_mfa_code returns success exactly when challenge_type is "sms" or "totp" and
\* the provider's authenticate call of that type returned; a call that raised gives
\* "Invalid code", any other challenge_type gives "Invalid challenge type" and no
\* provider call; the function never raises.
C18_MfaDecidedByProvider ==
    last.op = "verify_mfa_code" =>
        LET known == last.challenge_type \in {"sms", "totp"}
            api == IF last.challenge_type = "sms" THEN "otps.sms.authenticate"
                   ELSE "totps.authenticate"
        IN  /\ last.exc = NoneStr
            /\ last.body.success = (known /\ last.provider = "ok")
            /\ known => last.calls = << <<api, MfaUser>> >>
            /\ last.body.success => last.body.message = "MFA verified"
            /\ (known /\ last.provider = "raise") =>
                  last.body = [success |-> FALSE, message |-> "Invalid code"]
            /\ ~known => /\ last.body = [success |-> FALSE, message |-> "Invalid challenge type"]
                         /\ last.calls = <<>>

\* C18 witness: a totp code the provider refused
C18_Witness ==
    /\ last.op = "verify_mfa_code"
    /\ last.challenge_type = "totp"
    /\ last.calls = << <<"totps.authenticate", MfaUser>> >>
    /\ last.body = [success |-> FALSE, message |-> "Invalid code"]

\* logout, with or without a session: the constant answer, no provider call, the cache
\* as it was
LogoutFrame ==
    last'.op = "logout_endpoint" =>
        /\ last'.body = [success |-> TRUE, message |-> "Logged out successfully"]
        /\ last'.calls = <<>>
        /\ session_cache' = session_cache

\* every sessions.authenticate call of the request for the cookie token was answered
\* with a session of a user
ProviderAcceptsNext ==
    /\ last'.auth1 = "ok"
    /\ last'.rot # "ok" => last'.auth2 \in {"ok", "none"}

C20_NoEvictionBeyondExpiry ==
    [][ \A k \in DOMAIN session_cache \ DOMAIN session_cache' :
          \/ /\ last'.op \in {"get_current_user", "validate_session_with_cache"}
             /\ k = LastKeyNext
             /\ now - session_cache[k].timestamp > 900
          \/ /\ last'.op = "get_current_user"
             /\ last'.rot = "ok"
             /\ k = CookieKeyNext ]_vars

\* C20 witness: after a logout the cache holds the entries of two tokens, one of them
\* older than 900 seconds
C20_Witness ==
    /\ last.op = "logout_endpoint"
    /\ Cardinality(DOMAIN session_cache) = 2
    /\ \E k \in DOMAIN session_cache : now - session_cache[k].timestamp > 900

====
